---- MODULE Spec2Model ----
(***************************************************************************)
(* Velocity Installer: the release fetcher, the asset downloader and the   *)
(* self updater (github_downloader.go, self_updater.go).                   *)
(*                                                                         *)
(* Go strings are modelled as sequences of one-character strings, so that  *)
(* strings.ToLower, strings.Contains, strings.HasSuffix, strings.LastIndex *)
(* and slicing are computed character by character.                        *)
(***************************************************************************)
EXTENDS Integers, Sequences, FiniteSets, TLC

VARIABLES
    \* ---- build and process environment (fixed for one run) ----
    InstallerTag,             \* buildinfo.InstallerTag embedded in the build
    GOOS,                     \* runtime.GOOS
    devEnv,                   \* os.Getenv("VELOCITY_DEV_INSTALL")
    sourceFile,               \* which revision of github_downloader.go is built
    localFile,                \* what os.Stat and os.ReadFile find at VelocityDirectory
    \* ---- self_updater.go ----
    IsSelfOutdated,
    SelfUpdateCheckDoneChan,  \* buffered channel, as the sequence of queued values
    selfSent,                 \* every value sent on SelfUpdateCheckDoneChan so far
    initDone,                 \* the package init() has run
    checkPc, checkResp, checkRes, \* the update check goroutine, its response, res
    cleanupPc, attempts,      \* the DeleteOldExecutable goroutine and its counter
    updPc, updErr, updRes,    \* UpdateSelf: position, returned error, response
    exeFile, oldFile, tmpFile,\* files at ownExePath, ownExePath+".old", tmp.Name()
    staleTmp,                 \* a temporary file of an earlier UpdateSelf remains
    relaunchErr, child, exited, \* RelaunchSelf: returned error; how far the
                              \* replacement process got; os.Exit was called
    \* ---- github_downloader.go ----
    ReleaseData, GithubError, InstalledHash, LatestHash, IsDevInstall,
    GithubDoneChan,           \* buffered channel, as the sequence of queued values
    githubSent,               \* every value sent on GithubDoneChan so far
    ghPc,                     \* InitGithubDownloader on the calling goroutine
    fetchPc, fetchResp, fetchData, \* the release fetch goroutine, its response, data
    instPc, instAssets, instIdx, retErr, \* installLatestBuilds: loop state, result
    requested,                \* names passed to http.Get by the current call
    written,                  \* names of the files the current call has opened
    truncated,                \* the current call copied fewer bytes than declared
    installs                  \* calls of installLatestBuilds made so far

selfVars == <<IsSelfOutdated, SelfUpdateCheckDoneChan, selfSent, initDone,
              checkPc, checkResp, checkRes, cleanupPc, attempts,
              updPc, updErr, updRes, exeFile, oldFile, tmpFile, staleTmp,
              relaunchErr, child, exited>>

fetchVars == <<ReleaseData, GithubError, LatestHash, GithubDoneChan,
               githubSent, fetchPc, fetchResp, fetchData>>

instVars == <<instPc, instAssets, instIdx, retErr, requested, written,
              truncated, installs>>

ghVars == <<fetchVars, instVars, InstalledHash, IsDevInstall, ghPc>>

envVars == <<InstallerTag, GOOS, devEnv, sourceFile, localFile>>

updVars == <<updPc, updErr, updRes, exeFile, oldFile, tmpFile, staleTmp>>

checkVars == <<IsSelfOutdated, SelfUpdateCheckDoneChan, selfSent, checkPc,
               checkResp, checkRes>>

cleanupVars == <<cleanupPc, attempts>>

\* what UpdateSelf leaves alone
updOther == <<envVars, ghVars, checkVars, cleanupVars, initDone, relaunchErr, child,
              exited>>

vars == <<envVars, selfVars, ghVars>>

----------------------------------------------------------------------------
\* Bounds of the model

\* longest asset list of a release
MaxAssets == 2
\* largest Content-Length a download response declares
MaxBody == 1
\* calls of installLatestBuilds in one run
MaxInstalls == 1

----------------------------------------------------------------------------
\* Strings

UpperAlphabet == <<"A","B","C","D","E","F","G","H","I","J","K","L","M",
                   "N","O","P","Q","R","S","T","U","V","W","X","Y","Z">>
LowerAlphabet == <<"a","b","c","d","e","f","g","h","i","j","k","l","m",
                   "n","o","p","q","r","s","t","u","v","w","x","y","z">>

ToLowerChar(c) ==
    IF \E i \in 1..26 : UpperAlphabet[i] = c
    THEN LowerAlphabet[CHOOSE i \in 1..26 : UpperAlphabet[i] = c]
    ELSE c

\* strings.ToLower
ToLower(s) == [i \in 1..Len(s) |-> ToLowerChar(s[i])]

\* strings.Contains
Contains(s, sub) ==
    \E i \in 0..(Len(s) - Len(sub)) : SubSeq(s, i + 1, i + Len(sub)) = sub

\* strings.HasSuffix
HasSuffix(s, suf) ==
    /\ Len(s) >= Len(suf)
    /\ SubSeq(s, Len(s) - Len(suf) + 1, Len(s)) = suf

\* strings.Index in place of strings.LastIndex: the first space
LastIndexSpaceFirst(s) ==
    IF \E i \in 1..Len(s) : s[i] = " "
    THEN (CHOOSE i \in 1..Len(s) :
            /\ s[i] = " "
            /\ \A j \in 1..(i - 1) : s[j] # " ") - 1
    ELSE -1

\* strings.LastIndex(s, " "): 0-based index of the last space, -1 if none
LastIndexSpace(s) ==
    IF \E i \in 1..Len(s) : s[i] = " "
    THEN (CHOOSE i \in 1..Len(s) :
            /\ s[i] = " "
            /\ \A j \in (i + 1)..Len(s) : s[j] # " ") - 1
    ELSE -1

\* the Go slice expression s[i:], i 0-based
SliceFrom(s, i) == SubSeq(s, i + 1, Len(s))

StrNone == <<"N","o","n","e">>
StrUnknown == <<"U","n","k","n","o","w","n">>

----------------------------------------------------------------------------
\* Release feed and HTTP responses

NoError == "nil"
Nil == "nil"

\* buildinfo.VersionUnknown
VersionUnknown == "unknown"

Tags == {"v1", "v2"}

\* the zero value of GithubRelease
EmptyRelease == [Name |-> <<>>, TagName |-> "", Assets |-> <<>>]

NamePatcher == <<"p","a","t","c","h","e","r",".","j","s">>
NamePatcherLegal == <<"p","a","t","c","h","e","r",".","j","s",".",
                      "L","E","G","A","L",".","t","x","t">>
NameRenderer == <<"r","e","n","d","e","r","e","r",".","j","s">>
NameDesktopMain == <<"v","e","l","o","c","i","t","y","D","e","s","k","t","o","p",
                     "M","a","i","n",".","j","s">>
NameDesktopAsar == <<"d","e","s","k","t","o","p",".","a","s","a","r">>
NameRendererLegal == <<"r","e","n","d","e","r","e","r",".",
                       "L","e","g","a","l",".","T","x","t">>

AssetNames == {NamePatcher, NamePatcherLegal, NameRenderer, NameDesktopMain,
               NameDesktopAsar, NameRendererLegal}

Asset(n) == [Name |-> n, DownloadURL |-> n]

AssetLists ==
    UNION {[1..k -> {Asset(n) : n \in AssetNames}] : k \in 0..MaxAssets}

ReleaseNames == {<<"V"," ","B"," ","a","b">>, <<"V"," ","c">>, <<"a","b">>}

\* what the application's release feed can serve
MainReleases ==
    [Name : ReleaseNames, TagName : {"v2"}, Assets : AssetLists]

\* what the installer's own release feed can serve
InstallerReleases ==
    [Name : {<<"V"," ","c">>}, TagName : Tags, Assets : {<<>>}]

\* an HTTP exchange for a release feed: a transport failure, or a status
\* with a body that is a release document, another JSON object or no JSON
FeedResponses(releases) ==
    {[kind |-> "transport"]}
    \cup [kind : {"http"}, status : {200, 404}, json : {TRUE},
          body : releases \cup {EmptyRelease}]
    \cup [kind : {"http"}, status : {200, 404}, json : {FALSE},
          body : {EmptyRelease}]

\* GetGithubRelease without the test of res.StatusCode
GetGithubReleaseNoStatus(resp) ==
    IF resp.kind = "transport"
    THEN [data |-> Nil, err |-> "transport"]
    ELSE IF ~resp.json
    THEN [data |-> Nil, err |-> "decode"]
    ELSE [data |-> resp.body, err |-> NoError]

GetGithubRelease(resp) ==
    IF resp.kind = "transport"
    THEN [data |-> Nil, err |-> "transport"]
    ELSE IF resp.status >= 300
    THEN [data |-> Nil, err |-> "status"]
    ELSE IF ~resp.json
    THEN [data |-> Nil, err |-> "decode"]
    ELSE [data |-> resp.body, err |-> NoError]

----------------------------------------------------------------------------
\* self_updater.go

\* files
NoFile == "absent"

\* number of removal attempts of DeleteOldExecutable
MaxAttempts == 10

UiTypes == {"cli", "gui"}

GetInstallerDownloadLink(goos, uiType) ==
    CASE goos = "windows" ->
           IF uiType = "cli" THEN "VelocityInstallerCli.exe"
                             ELSE "VelocityInstaller.exe"
      [] goos = "darwin" -> "VelocityInstaller.MacOS.zip"
      [] goos = "linux" -> "VelocityInstallerCli-linux"
      [] OTHER -> ""

\* CanUpdateSelf without the platform test
CanUpdateSelfAnyPlatform == IsSelfOutdated

CanUpdateSelf == IsSelfOutdated /\ GOOS # "darwin"

\* init without the test of the installer tag
IsReleaseBuildAlways(tag) == TRUE

IsReleaseBuild(tag) == tag # VersionUnknown

\* func init(): an unreleased build launches nothing; a release build starts
\* DeleteOldExecutable and the update check, each on its own goroutine
init ==
    /\ ~initDone /\ ~exited
    /\ initDone' = TRUE
    /\ IF ~IsReleaseBuild(InstallerTag)
       THEN UNCHANGED <<cleanupPc, checkPc>>
       ELSE /\ cleanupPc' = "start"
            /\ checkPc' = "fetch"
    /\ UNCHANGED <<envVars, ghVars, IsSelfOutdated, SelfUpdateCheckDoneChan,
                   selfSent, checkResp, checkRes, attempts, updVars,
                   relaunchErr, child, exited>>

\* the check goroutine: res, err := GetGithubRelease(InstallerReleaseUrl)
CheckFetch ==
    /\ checkPc = "fetch" /\ ~exited
    /\ \E resp \in FeedResponses(InstallerReleases) :
         LET r == GetGithubRelease(resp) IN
         /\ checkResp' = resp
         /\ IF r.err # NoError
            THEN /\ checkPc' = "sendFalse"
                 /\ UNCHANGED checkRes
            ELSE /\ checkPc' = "assign"
                 /\ checkRes' = r.data
    /\ UNCHANGED <<envVars, ghVars, IsSelfOutdated, SelfUpdateCheckDoneChan,
                   selfSent, initDone, cleanupVars, updVars, relaunchErr, child,
                   exited>>

\* the comparison of the tags the wrong way round
SelfOutdatedInverted(remoteTag, ownTag) == remoteTag = ownTag

SelfOutdated(remoteTag, ownTag) == remoteTag # ownTag

\* IsSelfOutdated = res.TagName != buildinfo.InstallerTag
CheckAssign ==
    /\ checkPc = "assign" /\ ~exited
    /\ IsSelfOutdated' = SelfOutdated(checkRes.TagName, InstallerTag)
    /\ checkPc' = "sendTrue"
    /\ UNCHANGED <<envVars, ghVars, SelfUpdateCheckDoneChan, selfSent,
                   initDone, checkResp, checkRes, cleanupVars, updVars,
                   relaunchErr, child, exited>>

\* SelfUpdateCheckDoneChan <- false / true; a send blocks while the single
\* slot is taken
CheckSend ==
    /\ checkPc \in {"sendFalse", "sendTrue"} /\ ~exited
    /\ Len(SelfUpdateCheckDoneChan) < 1
    /\ SelfUpdateCheckDoneChan' =
           Append(SelfUpdateCheckDoneChan, checkPc = "sendTrue")
    /\ selfSent' = Append(selfSent, checkPc = "sendTrue")
    /\ checkPc' = "done"
    /\ UNCHANGED <<envVars, ghVars, IsSelfOutdated, initDone, checkResp,
                   checkRes, cleanupVars, updVars, relaunchErr, child, exited>>

\* a caller blocking on <-SelfUpdateCheckDoneChan
RecvSelfUpdateCheckDone ==
    /\ initDone /\ ~exited
    /\ Len(SelfUpdateCheckDoneChan) > 0
    /\ SelfUpdateCheckDoneChan' = Tail(SelfUpdateCheckDoneChan)
    /\ UNCHANGED <<envVars, ghVars, IsSelfOutdated, selfSent, initDone,
                   checkPc, checkResp, checkRes, cleanupVars, updVars,
                   relaunchErr, child, exited>>

\* DeleteOldExecutable: os.Executable(), then the retry loop
DeleteOldExecutableStart ==
    /\ cleanupPc = "start" /\ ~exited
    /\ \E ok \in BOOLEAN : cleanupPc' = IF ok THEN "loop" ELSE "done"
    /\ UNCHANGED <<envVars, ghVars, checkVars, initDone, attempts, updVars,
                   relaunchErr, child, exited>>

\* the results os.Remove(ownExePath + ".old") can give for the file there
RemoveOutcomes(f) ==
    IF f = NoFile THEN {"notexist"} ELSE {"nil", "other"}

\* the loop left only when the removal succeeded
LoopBreaksOnlyNil(err) == err = "nil"

\* err == nil || errors.Is(err, os.ErrNotExist)
LoopBreaks(err) == err = "nil" \/ err = "notexist"

\* one iteration: os.Remove(ownExePath + ".old"); break on nil or ErrNotExist,
\* otherwise sleep a second and count the attempt
DeleteOldExecutableAttempt ==
    /\ cleanupPc = "loop" /\ ~exited
    /\ IF attempts >= MaxAttempts
       THEN /\ cleanupPc' = "done"
            /\ UNCHANGED <<oldFile, attempts>>
       ELSE \E err \in RemoveOutcomes(oldFile) :
              /\ oldFile' = IF err = "nil" THEN NoFile ELSE oldFile
              /\ IF LoopBreaks(err)
                 THEN cleanupPc' = "done" /\ UNCHANGED attempts
                 ELSE attempts' = attempts + 1 /\ UNCHANGED cleanupPc
    /\ UNCHANGED <<envVars, ghVars, checkVars, initDone, updPc, updErr,
                   updRes, exeFile, tmpFile, staleTmp, relaunchErr, child, exited>>

updIdle == updPc \in {"idle", "returned"}

\* UpdateSelf up to http.Get: CanUpdateSelf, GetInstallerDownloadLink,
\* os.Executable
UpdateSelfStart ==
    /\ initDone /\ ~exited /\ updIdle
    /\ \E uiType \in UiTypes, exeOk \in BOOLEAN :
         IF ~CanUpdateSelf
         THEN updPc' = "returned" /\ updErr' = "cannot update self"
         ELSE IF GetInstallerDownloadLink(GOOS, uiType) = ""
         THEN updPc' = "returned" /\ updErr' = "no download link"
         ELSE IF ~exeOk
         THEN updPc' = "returned" /\ updErr' = "os.Executable"
         ELSE updPc' = "get" /\ updErr' = NoError
    /\ updRes' = Nil
    /\ UNCHANGED <<exeFile, oldFile, tmpFile, staleTmp, updOther>>

\* res, err := http.Get(url): only a transport failure is an error, the
\* status code of the response is not looked at
UpdateSelfGet ==
    /\ updPc = "get" /\ ~exited
    /\ \E resp \in {"transport", "200", "404"} :
         IF resp = "transport"
         THEN updPc' = "returned" /\ updErr' = "http.Get" /\ UNCHANGED updRes
         ELSE updPc' = "createTemp" /\ updRes' = resp /\ UNCHANGED updErr
    /\ UNCHANGED <<exeFile, oldFile, tmpFile, staleTmp, updOther>>

\* tmp, err := os.CreateTemp(ownExeDir, "VelocityInstallerUpdate"): a file
\* with a fresh name
UpdateSelfCreateTemp ==
    /\ updPc = "createTemp" /\ ~exited
    /\ \E ok \in BOOLEAN :
         IF ok
         THEN /\ updPc' = "chmod"
              /\ tmpFile' = "empty"
              /\ staleTmp' = (staleTmp \/ tmpFile # NoFile)
              /\ UNCHANGED updErr
         ELSE /\ updPc' = "returned" /\ updErr' = "create tempfile"
              /\ UNCHANGED <<tmpFile, staleTmp>>
    /\ UNCHANGED <<updRes, exeFile, oldFile, updOther>>

\* tmp.Chmod(0o755)
UpdateSelfChmod ==
    /\ updPc = "chmod" /\ ~exited
    /\ \E ok \in BOOLEAN :
         IF ok THEN updPc' = "copy" /\ UNCHANGED updErr
               ELSE updPc' = "defer" /\ updErr' = "chmod"
    /\ UNCHANGED <<updRes, exeFile, oldFile, tmpFile, staleTmp, updOther>>

\* io.Copy(tmp, res.Body): the whole body of the response, whatever its status
UpdateSelfCopy ==
    /\ updPc = "copy" /\ ~exited
    /\ \E ok \in BOOLEAN :
         IF ok
         THEN /\ updPc' = "close" /\ UNCHANGED updErr
              /\ tmpFile' = IF updRes = "200" THEN "new" ELSE "errpage"
         ELSE /\ updPc' = "defer" /\ updErr' = "copy"
              /\ tmpFile' = "partial"
    /\ UNCHANGED <<updRes, exeFile, oldFile, staleTmp, updOther>>

\* tmp.Close()
UpdateSelfClose ==
    /\ updPc = "close" /\ ~exited
    /\ \E ok \in BOOLEAN :
         IF ok THEN updPc' = "remove" /\ UNCHANGED updErr
               ELSE updPc' = "defer" /\ updErr' = "close"
    /\ UNCHANGED <<updRes, exeFile, oldFile, tmpFile, staleTmp, updOther>>

\* os.Remove(ownExePath): may fail (a running executable is locked on some
\* platforms), and fails when there is no such file
UpdateSelfRemove ==
    /\ updPc = "remove" /\ ~exited
    /\ \/ /\ exeFile # NoFile
          /\ exeFile' = NoFile
          /\ updPc' = "renameNew"
       \/ /\ updPc' = "renameOld"
          /\ UNCHANGED exeFile
    /\ UNCHANGED <<updErr, updRes, oldFile, tmpFile, staleTmp, updOther>>

\* the fallback os.Rename(ownExePath, ownExePath+".old"), replacing any file
\* already at the .old path
UpdateSelfRenameOld ==
    /\ updPc = "renameOld" /\ ~exited
    /\ \/ /\ exeFile # NoFile
          /\ oldFile' = exeFile
          /\ exeFile' = NoFile
          /\ updPc' = "renameNew"
          /\ UNCHANGED updErr
       \/ /\ updPc' = "defer"
          /\ updErr' = "remove or rename own executable"
          /\ UNCHANGED <<exeFile, oldFile>>
    /\ UNCHANGED <<updRes, tmpFile, staleTmp, updOther>>

\* os.Rename(tmp.Name(), ownExePath)
UpdateSelfRenameNew ==
    /\ updPc = "renameNew" /\ ~exited
    /\ \/ /\ tmpFile # NoFile
          /\ exeFile' = tmpFile
          /\ tmpFile' = NoFile
          /\ updPc' = "defer"
          /\ UNCHANGED updErr
       \/ /\ updPc' = "defer"
          /\ updErr' = "replace self"
          /\ UNCHANGED <<exeFile, tmpFile>>
    /\ UNCHANGED <<updRes, oldFile, staleTmp, updOther>>

\* the deferred function: tmp.Close(), os.Remove(tmp.Name()), both results
\* dropped; then UpdateSelf returns
UpdateSelfDeferred ==
    /\ updPc = "defer" /\ ~exited
    /\ \/ tmpFile' = NoFile
       \/ tmpFile # NoFile /\ UNCHANGED tmpFile
    /\ updPc' = "returned"
    /\ UNCHANGED <<updErr, updRes, exeFile, oldFile, staleTmp, updOther>>

\* proc.Release() taken to succeed always
ReleaseFailedNever(released) == FALSE

\* if err = proc.Release(); err != nil
ReleaseFailed(released) == ~released

\* RelaunchSelf: os.StartProcess, proc.Release, os.Exit(0)
RelaunchSelf ==
    /\ initDone /\ ~exited /\ updIdle
    /\ \E started \in BOOLEAN, released \in BOOLEAN :
         /\ child' = IF ~started THEN "none"
                     ELSE IF released THEN "released" ELSE "started"
         /\ IF ~started
            THEN relaunchErr' = "failed to start new process" /\ UNCHANGED exited
            ELSE IF ReleaseFailed(released)
            THEN relaunchErr' = "failed to release new process" /\ UNCHANGED exited
            ELSE exited' = TRUE /\ UNCHANGED relaunchErr
    /\ UNCHANGED <<envVars, ghVars, checkVars, cleanupVars, initDone, updVars>>

----------------------------------------------------------------------------
\* github_downloader.go

\* the environment flag compared with another literal
DevInstallFlagTrue(env) == env = "true"

\* os.Getenv("VELOCITY_DEV_INSTALL") == "1"
DevInstallFlag(env) == env = "1"

\* the marker `// Velocity ` of the regular expression `// Velocity (\w+)`
MarkerPrefix == <<"/","/"," ","V","e","l","o","c","i","t","y"," ">>

Digits == <<"0","1","2","3","4","5","6","7","8","9">>

\* \w
IsWordChar(c) ==
    \/ \E i \in 1..26 : c = UpperAlphabet[i] \/ c = LowerAlphabet[i]
    \/ \E i \in 1..10 : c = Digits[i]
    \/ c = "_"

\* the 1-based places where `// Velocity (\w+)` matches
MarkerAt(b) ==
    {i \in 1..Len(b) :
        /\ i + Len(MarkerPrefix) <= Len(b)
        /\ SubSeq(b, i, i + Len(MarkerPrefix) - 1) = MarkerPrefix
        /\ IsWordChar(b[i + Len(MarkerPrefix)])}

\* the longest run of word characters of b that starts at place i
WordRun(b, i) ==
    LET ends == {j \in i..Len(b) : \A k \in i..j : IsWordChar(b[k])}
    IN SubSeq(b, i, CHOOSE j \in ends : \A k \in ends : k <= j)

\* the rightmost match in place of the leftmost
FindSubmatchLast(b) ==
    IF MarkerAt(b) = {}
    THEN [match |-> FALSE, group |-> <<>>]
    ELSE LET i == CHOOSE m \in MarkerAt(b) : \A n \in MarkerAt(b) : m >= n
         IN [match |-> TRUE, group |-> WordRun(b, i + Len(MarkerPrefix))]

\* re.FindSubmatch(b): the leftmost match, its group 1
FindSubmatch(b) ==
    IF MarkerAt(b) = {}
    THEN [match |-> FALSE, group |-> <<>>]
    ELSE LET i == CHOOSE m \in MarkerAt(b) : \A n \in MarkerAt(b) : m <= n
         IN [match |-> TRUE, group |-> WordRun(b, i + Len(MarkerPrefix))]

\* contents of the file at VelocityDirectory (or of its main.js)
FileContents ==
    {<<>>,
     MarkerPrefix \o <<"a","b","\n">>,
     <<"x">> \o MarkerPrefix \o <<"c","-">> \o MarkerPrefix \o <<"a","b">>,
     MarkerPrefix \o <<"-","a">>}

\* what os.Stat and os.ReadFile find at VelocityDirectory
LocalArtifacts ==
    {[exists |-> FALSE, isDir |-> FALSE, readable |-> FALSE, content |-> <<>>]}
    \cup [exists : {TRUE}, isDir : BOOLEAN, readable : {FALSE}, content : {<<>>}]
    \cup [exists : {TRUE}, isDir : BOOLEAN, readable : {TRUE},
          content : FileContents]

\* os.Stat finds nothing at VelocityDirectory
NoArtifact ==
    [exists |-> FALSE, isDir |-> FALSE, readable |-> FALSE, content |-> <<>>]

\* no install, an install with one marker, an install with two markers
InstalledArtifacts ==
    {NoArtifact}
    \cup {f \in LocalArtifacts :
            /\ f.readable /\ ~f.isDir
            /\ Len(f.content) > 0 /\ FindSubmatch(f.content).match}

\* LatestHash = data.Name[strings.LastIndex(data.Name, " ")+1:]
HashOfName(name) == SliceFrom(name, LastIndexSpace(name) + 1)

\* InitGithubDownloader up to the go statement: makes the channel, reads the
\* environment; a dev install signals at once and returns
InitGithubDownloader ==
    /\ initDone /\ ~exited
    /\ ghPc = "start"
    /\ IsDevInstall' = DevInstallFlag(devEnv)
    /\ IF DevInstallFlag(devEnv)
       THEN /\ GithubDoneChan' = <<TRUE>>
            /\ githubSent' = Append(githubSent, TRUE)
            /\ ghPc' = "done"
            /\ UNCHANGED fetchPc
       ELSE /\ GithubDoneChan' = <<>>
            /\ fetchPc' = "fetch"
            /\ ghPc' = "detect"
            /\ UNCHANGED githubSent
    /\ UNCHANGED <<envVars, selfVars, instVars, ReleaseData, GithubError,
                   LatestHash, fetchResp, fetchData, InstalledHash>>

\* the rest of InitGithubDownloader: os.Stat, os.ReadFile, FindSubmatch
DetectInstalledHash ==
    /\ ghPc = "detect" /\ ~exited
    /\ IF localFile.exists /\ localFile.readable
          /\ FindSubmatch(localFile.content).match
       THEN InstalledHash' = FindSubmatch(localFile.content).group
       ELSE UNCHANGED InstalledHash
    /\ ghPc' = "done"
    /\ UNCHANGED <<envVars, selfVars, fetchVars, instVars, IsDevInstall>>

\* the fetch goroutine: data, err := GetGithubRelease(ReleaseUrl)
FetchRelease ==
    /\ fetchPc = "fetch" /\ ~exited
    /\ \E resp \in FeedResponses(MainReleases) :
         LET r == GetGithubRelease(resp) IN
         /\ fetchResp' = resp
         /\ IF r.err # NoError
            THEN /\ GithubError' = r.err
                 /\ fetchPc' = "send"
                 /\ UNCHANGED fetchData
            ELSE /\ fetchData' = r.data
                 /\ fetchPc' = "assignData"
                 /\ UNCHANGED GithubError
    /\ UNCHANGED <<envVars, selfVars, instVars, ReleaseData, LatestHash,
                   GithubDoneChan, githubSent, InstalledHash, IsDevInstall,
                   ghPc>>

\* ReleaseData = *data
FetchAssignData ==
    /\ fetchPc = "assignData" /\ ~exited
    /\ ReleaseData' = fetchData
    /\ fetchPc' = "assignHash"
    /\ UNCHANGED <<envVars, selfVars, instVars, GithubError, LatestHash,
                   GithubDoneChan, githubSent, fetchResp, fetchData,
                   InstalledHash, IsDevInstall, ghPc>>

\* LatestHash = data.Name[i:]
FetchAssignHash ==
    /\ fetchPc = "assignHash" /\ ~exited
    /\ LatestHash' = HashOfName(fetchData.Name)
    /\ fetchPc' = "send"
    /\ UNCHANGED <<envVars, selfVars, instVars, ReleaseData, GithubError,
                   GithubDoneChan, githubSent, fetchResp, fetchData,
                   InstalledHash, IsDevInstall, ghPc>>

\* a deferred send that always reports success
DoneValueAlwaysTrue == TRUE

\* the value of the deferred send: GithubError == nil
DoneValue == GithubError = NoError

\* the deferred GithubDoneChan <- GithubError == nil
FetchSend ==
    /\ fetchPc = "send" /\ ~exited
    /\ Len(GithubDoneChan) < 1
    /\ GithubDoneChan' = Append(GithubDoneChan, DoneValue)
    /\ githubSent' = Append(githubSent, DoneValue)
    /\ fetchPc' = "done"
    /\ UNCHANGED <<envVars, selfVars, instVars, ReleaseData, GithubError,
                   LatestHash, fetchResp, fetchData, InstalledHash,
                   IsDevInstall, ghPc>>

\* a caller blocking on <-GithubDoneChan
RecvGithubDone ==
    /\ ghPc # "start" /\ ~exited
    /\ Len(GithubDoneChan) > 0
    /\ GithubDoneChan' = Tail(GithubDoneChan)
    /\ UNCHANGED <<envVars, selfVars, instVars, ReleaseData, GithubError,
                   LatestHash, githubSent, fetchPc, fetchResp, fetchData,
                   InstalledHash, IsDevInstall, ghPc>>

\* responses to the http.Get of an asset: a transport failure, or a status,
\* the declared Content-Length (-1: no such header) and the bytes the body
\* yields before it ends
DownloadResponses ==
    {[kind |-> "transport", status |-> 0, declared |-> -1, sent |-> 0]}
    \cup {r \in [kind : {"http"}, status : {200, 404},
                 declared : -1..MaxBody, sent : 0..MaxBody] :
            r.declared >= 0 => r.sent <= r.declared}

\* err of `res, err := http.Get(url)` after the status test
DownloadError(resp) ==
    IF resp.kind = "transport" THEN "transport"
    ELSE IF resp.status >= 300 THEN "status"
    ELSE NoError

NoErr == [op |-> "nil", at |-> 0]

LegalSuffix == <<".","l","e","g","a","l",".","t","x","t">>
SubPreload == <<"p","r","e","l","o","a","d">>
SubPatcher == <<"p","a","t","c","h","e","r">>
SubDesktopMain == <<"v","e","l","o","c","i","t","y","d","e","s","k","t","o","p",
                    "M","a","i","n">>
SubDesktopRenderer == <<"v","e","l","o","c","i","t","y","d","e","s","k","t","o","p",
                        "r","e","n","d","e","r","e","r">>
SubRenderer == <<"r","e","n","d","e","r","e","r">>
SubDesktop == <<"v","e","l","o","c","i","t","y","d","e","s","k","t","o","p">>

\* the loop's test with the suffix looked for in the name as it is spelled
SelectedSuffixCaseSensitive(name) ==
    LET lowerName == ToLower(name) IN
    /\ ~HasSuffix(name, LegalSuffix)
    /\ \/ Contains(lowerName, SubPreload)
       \/ Contains(lowerName, SubPatcher)
       \/ Contains(lowerName, SubDesktopMain)
       \/ Contains(lowerName, SubDesktopRenderer)
       \/ (Contains(lowerName, SubRenderer) /\ ~Contains(lowerName, SubDesktop))

\* the test of the loop body: not a .LEGAL.txt file, and one of the wanted
\* substrings in the lowercased name
Selected(name) ==
    LET lowerName == ToLower(name) IN
    /\ ~HasSuffix(lowerName, LegalSuffix)
    /\ \/ Contains(lowerName, SubPreload)
       \/ Contains(lowerName, SubPatcher)
       \/ Contains(lowerName, SubDesktopMain)
       \/ Contains(lowerName, SubDesktopRenderer)
       \/ (Contains(lowerName, SubRenderer) /\ ~Contains(lowerName, SubDesktop))

instIdle == instPc \in {"idle", "returned"}

\* installLatestBuilds up to the loop: the dev install return, os.MkdirAll
InstallStart ==
    /\ sourceFile = "builds"
    /\ ghPc = "done" /\ ~exited /\ instIdle
    /\ installs < MaxInstalls
    /\ installs' = installs + 1
    /\ requested' = <<>> /\ written' = <<>> /\ truncated' = FALSE
    /\ IF IsDevInstall
       THEN /\ instPc' = "returned" /\ retErr' = NoErr
            /\ UNCHANGED <<instAssets, instIdx>>
       ELSE \E mkdirOk \in BOOLEAN :
              IF ~mkdirOk
              THEN /\ instPc' = "returned"
                   /\ retErr' = [op |-> "mkdir", at |-> 0]
                   /\ UNCHANGED <<instAssets, instIdx>>
              ELSE /\ instPc' = "loop" /\ retErr' = NoErr
                   /\ instAssets' = ReleaseData.Assets
                   /\ instIdx' = 1
    /\ UNCHANGED <<envVars, selfVars, fetchVars, InstalledHash, IsDevInstall,
                   ghPc>>

\* a failing step that records the error and goes on with the next asset
InstallAssetFailContinue(i, op) ==
    /\ retErr' = [op |-> op, at |-> i]
    /\ instPc' = "loop"
    /\ instIdx' = i + 1

\* a failing step of the loop body: retErr = err; return
InstallAssetFail(i, op) ==
    /\ retErr' = [op |-> op, at |-> i]
    /\ instPc' = "returned"
    /\ instIdx' = i

\* one iteration of `for _, ass := range ReleaseData.Assets`
InstallAsset ==
    /\ sourceFile = "builds"
    /\ instPc = "loop" /\ ~exited
    /\ instIdx <= Len(instAssets)
    /\ LET ass == instAssets[instIdx] IN
       IF ~Selected(ass.Name)
       THEN /\ instIdx' = instIdx + 1
            /\ UNCHANGED <<instPc, retErr, requested, written, truncated>>
       ELSE \E resp \in DownloadResponses, openOk \in BOOLEAN,
               copyOk \in BOOLEAN :
              /\ requested' = Append(requested, ass.Name)
              /\ IF DownloadError(resp) # NoError
                 THEN /\ InstallAssetFail(instIdx, "download")
                      /\ UNCHANGED <<written, truncated>>
                 ELSE IF ~openOk
                 THEN /\ InstallAssetFail(instIdx, "create")
                      /\ UNCHANGED <<written, truncated>>
                 ELSE /\ written' = Append(written, ass.Name)
                      /\ IF ~copyOk
                         THEN /\ InstallAssetFail(instIdx, "write")
                              /\ UNCHANGED truncated
                         ELSE /\ instIdx' = instIdx + 1
                              /\ truncated' =
                                   (truncated \/ (resp.declared >= 0
                                                  /\ resp.sent # resp.declared))
                              /\ UNCHANGED <<instPc, retErr>>
    /\ UNCHANGED <<envVars, selfVars, fetchVars, instAssets, installs,
                   InstalledHash, IsDevInstall, ghPc>>

\* after the loop: InstalledHash = LatestHash; return
InstallFinish ==
    /\ sourceFile = "builds"
    /\ instPc = "loop" /\ ~exited
    /\ instIdx > Len(instAssets)
    /\ InstalledHash' = LatestHash
    /\ instPc' = "returned"
    /\ UNCHANGED <<envVars, selfVars, fetchVars, instAssets, instIdx, retErr,
                   requested, written, truncated, installs, IsDevInstall,
                   ghPc>>

RECURSIVE FormatInt(_)
\* strconv.FormatInt(n, 10), n >= 0
FormatInt(n) ==
    IF n < 10 THEN <<Digits[n + 1]>>
    ELSE FormatInt(n \div 10) \o <<Digits[(n % 10) + 1]>>

\* res.Header.Get("Content-Length")
ContentLengthHeader(resp) ==
    IF resp.declared < 0 THEN <<>> ELSE FormatInt(resp.declared)

\* the places of ReleaseData.Assets named desktop.asar
AsarPlaces(assets) ==
    {i \in 1..Len(assets) : assets[i].Name = NameDesktopAsar}

\* the desktop.asar revision of installLatestBuilds, up to http.Get: the dev
\* install return and the search for the desktop.asar asset
InstallAsarStart ==
    /\ sourceFile = "asar"
    /\ ghPc = "done" /\ ~exited /\ instIdle
    /\ installs < MaxInstalls
    /\ installs' = installs + 1
    /\ requested' = <<>> /\ written' = <<>> /\ truncated' = FALSE
    /\ instAssets' = ReleaseData.Assets
    /\ IF IsDevInstall
       THEN instPc' = "returned" /\ retErr' = NoErr /\ UNCHANGED instIdx
       ELSE IF AsarPlaces(ReleaseData.Assets) = {}
       THEN /\ instPc' = "returned" /\ UNCHANGED instIdx
            /\ retErr' = [op |-> "no desktop.asar", at |-> 0]
       ELSE /\ instPc' = "get" /\ retErr' = NoErr
            /\ instIdx' = CHOOSE i \in AsarPlaces(ReleaseData.Assets) :
                            \A j \in AsarPlaces(ReleaseData.Assets) : i <= j
    /\ UNCHANGED <<envVars, selfVars, fetchVars, InstalledHash, IsDevInstall,
                   ghPc>>

\* the desktop.asar revision from http.Get on: download, create, copy, the
\* comparison of the bytes read with Content-Length, InstalledHash = LatestHash
InstallAsarDownload ==
    /\ sourceFile = "asar"
    /\ instPc = "get" /\ ~exited
    /\ instPc' = "returned"
    /\ \E resp \in DownloadResponses, openOk \in BOOLEAN, copyOk \in BOOLEAN :
         /\ requested' = Append(requested, instAssets[instIdx].Name)
         /\ IF DownloadError(resp) # NoError
            THEN /\ retErr' = [op |-> "download", at |-> instIdx]
                 /\ UNCHANGED <<written, truncated, InstalledHash>>
            ELSE IF ~openOk
            THEN /\ retErr' = [op |-> "create", at |-> instIdx]
                 /\ UNCHANGED <<written, truncated, InstalledHash>>
            ELSE /\ written' = Append(written, instAssets[instIdx].Name)
                 /\ IF ~copyOk
                    THEN /\ retErr' = [op |-> "write", at |-> instIdx]
                         /\ UNCHANGED <<truncated, InstalledHash>>
                    ELSE /\ truncated' = (resp.declared >= 0
                                          /\ resp.sent # resp.declared)
                         /\ IF FormatInt(resp.sent) # ContentLengthHeader(resp)
                            THEN /\ retErr' = [op |-> "length", at |-> instIdx]
                                 /\ UNCHANGED InstalledHash
                            ELSE /\ retErr' = NoErr
                                 /\ InstalledHash' = LatestHash
    /\ UNCHANGED <<envVars, selfVars, fetchVars, instAssets, instIdx, installs,
                   IsDevInstall, ghPc>>

----------------------------------------------------------------------------
\* Specifications

NoResponse == [kind |-> "none"]

InitSelf ==
    /\ IsSelfOutdated = FALSE
    /\ SelfUpdateCheckDoneChan = <<>>
    /\ selfSent = <<>>
    /\ initDone = FALSE
    /\ checkPc = "none" /\ checkResp = NoResponse /\ checkRes = EmptyRelease
    /\ cleanupPc = "none" /\ attempts = 0
    /\ updPc = "idle" /\ updErr = NoError /\ updRes = Nil
    /\ exeFile = "orig" /\ tmpFile = NoFile /\ staleTmp = FALSE
    /\ relaunchErr = NoError /\ child = "none" /\ exited = FALSE

InitGithub ==
    /\ ReleaseData = EmptyRelease
    /\ GithubError = NoError
    /\ InstalledHash = StrNone
    /\ LatestHash = StrUnknown
    /\ IsDevInstall = FALSE
    /\ GithubDoneChan = <<>> /\ githubSent = <<>>
    /\ ghPc = "start"
    /\ fetchPc = "none" /\ fetchResp = NoResponse /\ fetchData = EmptyRelease
    /\ instPc = "idle" /\ instAssets = <<>> /\ instIdx = 0 /\ retErr = NoErr
    /\ requested = <<>> /\ written = <<>> /\ truncated = FALSE
    /\ installs = 0

InstallerTags == {VersionUnknown, "v1"}
Platforms == {"windows", "linux", "darwin", "freebsd"}
DevEnvValues == {"", "1", "true"}
SourceFiles == {"builds", "asar"}

Init ==
    /\ InstallerTag \in InstallerTags
    /\ GOOS \in Platforms
    /\ devEnv \in DevEnvValues
    /\ sourceFile \in SourceFiles
    /\ localFile \in LocalArtifacts
    /\ oldFile \in {NoFile, "stale"}
    /\ InitSelf /\ InitGithub

NextSelfUpdater ==
    \/ init
    \/ CheckFetch \/ CheckAssign \/ CheckSend \/ RecvSelfUpdateCheckDone
    \/ DeleteOldExecutableStart \/ DeleteOldExecutableAttempt
    \/ UpdateSelfStart \/ UpdateSelfGet \/ UpdateSelfCreateTemp
    \/ UpdateSelfChmod \/ UpdateSelfCopy \/ UpdateSelfClose
    \/ UpdateSelfRemove \/ UpdateSelfRenameOld \/ UpdateSelfRenameNew
    \/ UpdateSelfDeferred
    \/ RelaunchSelf

NextDownloader ==
    \/ init
    \/ InitGithubDownloader \/ DetectInstalledHash
    \/ FetchRelease \/ FetchAssignData \/ FetchAssignHash \/ FetchSend
    \/ RecvGithubDone
    \/ InstallStart \/ InstallAsset \/ InstallFinish
    \/ InstallAsarStart \/ InstallAsarDownload

Next == NextSelfUpdater \/ NextDownloader

Spec == Init /\ [][Next]_vars

\* the self updater alone: the downloader is never initialised
InitSelfUpdater ==
    /\ Init
    /\ devEnv = "" /\ sourceFile = "builds" /\ localFile = NoArtifact

SpecSelfUpdater == InitSelfUpdater /\ [][NextSelfUpdater]_vars

\* the downloader alone, in a build that starts no self update goroutine
InitDownloader ==
    /\ Init
    /\ InstallerTag = VersionUnknown /\ GOOS = "linux" /\ oldFile = NoFile
    /\ localFile \in InstalledArtifacts

SpecDownloader == InitDownloader /\ [][NextDownloader]_vars

\* InitGithubDownloader alone, over everything that can be at VelocityDirectory
InitDetection ==
    /\ Init
    /\ InstallerTag = VersionUnknown /\ GOOS = "linux" /\ oldFile = NoFile
    /\ sourceFile = "builds"

NextDetection ==
    \/ init
    \/ InitGithubDownloader \/ DetectInstalledHash
    \/ FetchRelease \/ FetchAssignData \/ FetchAssignHash \/ FetchSend
    \/ RecvGithubDone

SpecDetection == InitDetection /\ [][NextDetection]_vars

----------------------------------------------------------------------------
\* Properties

\* the names of the assets of a list that the loop downloads, in order
SelectedNames(assets) ==
    LET sel == SelectSeq(assets, LAMBDA a : Selected(a.Name))
    IN [i \in 1..Len(sel) |-> sel[i].Name]

\* a feed response from which GetGithubRelease is meant to return a release
FeedOk(resp) == resp.kind = "http" /\ resp.status < 300 /\ resp.json

\* C1: whenever UpdateSelf has returned, a file exists at the executable's
\* path or at its .old path.
C1_ExecutableNeverMissing ==
    updPc = "returned" => (exeFile # NoFile \/ oldFile # NoFile)

\* C2: a call of installLatestBuilds that copied a number of bytes other than
\* the declared Content-Length returns an error.
C2_TruncatedDownloadFails ==
    (instPc = "returned" /\ truncated) => retErr # NoErr

\* C3: each completion channel is written at most once, and exactly once by
\* the time the tasks started at startup have finished.
C3_EachChannelWrittenOnce ==
    /\ Len(selfSent) <= 1 /\ Len(SelfUpdateCheckDoneChan) <= 1
    /\ Len(githubSent) <= 1 /\ Len(GithubDoneChan) <= 1
    /\ (initDone /\ checkPc \in {"none", "done"}) => Len(selfSent) = 1
    /\ (ghPc = "done" /\ fetchPc \in {"none", "done"}) => Len(githubSent) = 1

\* C4: LatestHash is "Unknown" or the hash of the name of the release that a
\* successful response carried, and ReleaseData is that release; after a
\* failed fetch LatestHash and ReleaseData still hold their initial values.
C4_LatestHashFromSuccessfulFetch ==
    /\ LatestHash # StrUnknown =>
         (FeedOk(fetchResp) /\ LatestHash = HashOfName(fetchResp.body.Name))
    /\ ReleaseData # EmptyRelease =>
         (FeedOk(fetchResp) /\ ReleaseData = fetchResp.body)
    /\ (fetchResp # NoResponse /\ ~FeedOk(fetchResp)) =>
         (LatestHash = StrUnknown /\ ReleaseData = EmptyRelease)

C4_Witness == fetchPc = "done" /\ LatestHash # StrUnknown

\* C5: in a run that is no dev install, a true sent on GithubDoneChan finds
\* GithubError nil and ReleaseData and LatestHash assigned from the fetched
\* release, and a false finds GithubError set, from the send on.
C5_SignalAgreesWithState ==
    ~IsDevInstall =>
      \A i \in 1..Len(githubSent) :
        IF githubSent[i]
        THEN /\ GithubError = NoError
             /\ FeedOk(fetchResp)
             /\ ReleaseData = fetchResp.body
             /\ LatestHash = HashOfName(fetchResp.body.Name)
        ELSE GithubError # NoError

C5_Witness ==
    ~IsDevInstall /\ githubSent = <<TRUE>> /\ GithubDoneChan = <<>>

\* C6: with VELOCITY_DEV_INSTALL = "1" the fetch goroutine is never started,
\* true has been sent once InitGithubDownloader has returned, and LatestHash,
\* ReleaseData and GithubError keep their initial values.
C6_DevInstallNeverFetches ==
    devEnv = "1" =>
      /\ fetchPc = "none" /\ fetchResp = NoResponse
      /\ LatestHash = StrUnknown
      /\ ReleaseData = EmptyRelease
      /\ GithubError = NoError
      /\ ghPc # "start" => (ghPc = "done" /\ githubSent = <<TRUE>>)

C6_Witness == devEnv = "1" /\ instPc = "returned"

\* C7: in a build whose installer tag is the unknown-version sentinel the
\* update check never runs, IsSelfOutdated and CanUpdateSelf stay false, and
\* every UpdateSelf returns an error without going past its first test.
C7_UnreleasedBuildNeverOutdated ==
    InstallerTag = VersionUnknown =>
      /\ checkPc = "none" /\ checkResp = NoResponse
      /\ ~IsSelfOutdated /\ ~CanUpdateSelf
      /\ updPc \in {"idle", "returned"}
      /\ updPc = "returned" => updErr # NoError

C7_Witness == InstallerTag = VersionUnknown /\ updPc = "returned"

\* C8: UpdateSelf goes on to its download only when IsSelfOutdated holds on a
\* platform other than darwin, and refuses with its "cannot update self"
\* error only when that does not hold; on darwin it always refuses, with no
\* response fetched and no file created, removed or renamed.
C8_CanUpdateSelfPolicy ==
    /\ [](GOOS = "darwin" =>
            /\ ~CanUpdateSelf
            /\ updPc \in {"idle", "returned"}
            /\ updPc = "returned" => updErr = "cannot update self"
            /\ updRes = Nil /\ exeFile = "orig" /\ tmpFile = NoFile)
    /\ [][(updPc' = "get" /\ updPc # "get") =>
            (IsSelfOutdated /\ GOOS # "darwin")]_vars
    /\ [][(updErr' = "cannot update self" /\ updErr # "cannot update self") =>
            ~(IsSelfOutdated /\ GOOS # "darwin")]_vars

C8_Witness == GOOS = "darwin" /\ IsSelfOutdated /\ updPc = "returned"

\* C9: the update check sends false after a failed fetch and leaves
\* IsSelfOutdated false; it sends true after a successful one, with
\* IsSelfOutdated = (remote tag # installer tag) from before the send; no
\* step of the check ends the process.
C9_CheckFailureNonFatal ==
    /\ [](/\ checkPc = "done" => selfSent = <<FeedOk(checkResp)>>
          /\ (checkResp # NoResponse /\ ~FeedOk(checkResp)) => ~IsSelfOutdated
          /\ (checkPc = "sendTrue" \/ selfSent = <<TRUE>>) =>
               /\ FeedOk(checkResp)
               /\ IsSelfOutdated = (checkResp.body.TagName # InstallerTag))
    /\ [][checkPc' # checkPc => exited' = exited]_vars

C9_Witness == checkPc = "done" /\ selfSent = <<FALSE>> /\ ~exited

\* C10: the loop of installLatestBuilds has requested and written exactly the
\* selected assets before its place, in order; once a step has failed the
\* call has returned that error, having requested no asset after the failing
\* one and written none.
C10_FirstFailureAborts ==
    sourceFile = "builds" =>
      /\ retErr # NoErr => instPc = "returned"
      /\ instPc = "loop" =>
           /\ requested = SelectedNames(SubSeq(instAssets, 1, instIdx - 1))
           /\ written = requested
      /\ (instPc = "returned" /\ retErr.at > 0) =>
           /\ retErr.at = instIdx
           /\ Selected(instAssets[instIdx].Name)
           /\ requested = SelectedNames(SubSeq(instAssets, 1, instIdx))
           /\ written = IF retErr.op = "write" THEN requested
                        ELSE SubSeq(requested, 1, Len(requested) - 1)

C10_Witness ==
    /\ sourceFile = "builds" /\ instPc = "returned"
    /\ retErr.at = 1 /\ retErr.op = "create"
    /\ Len(instAssets) = 2 /\ Selected(instAssets[2].Name)

\* the required components as the comment above the loop's test lists them:
\* preload, patcher, velocityDesktopMain, velocityDesktopRenderer, renderer
RequiredComponent(name) ==
    LET lowerName == ToLower(name) IN
    /\ ~HasSuffix(lowerName, LegalSuffix)
    /\ \/ Contains(lowerName, SubPreload)
       \/ Contains(lowerName, SubPatcher)
       \/ Contains(lowerName, ToLower(SubDesktopMain))
       \/ Contains(lowerName, SubDesktopRenderer)
       \/ (Contains(lowerName, SubRenderer) /\ ~Contains(lowerName, SubDesktop))

RequiredNames(assets) ==
    LET sel == SelectSeq(assets, LAMBDA a : RequiredComponent(a.Name))
    IN [i \in 1..Len(sel) |-> sel[i].Name]

\* C11: a call of installLatestBuilds that returns without error has
\* downloaded, in release order and once each, exactly the assets named for a
\* required component (legal notices apart), the platform-specific main
\* bundle among them.
C11_SelectsRequiredComponents ==
    (sourceFile = "builds" /\ instPc = "returned" /\ retErr = NoErr
       /\ ~IsDevInstall)
      => requested = RequiredNames(instAssets)

\* C12: no asset whose name ends in .legal.txt, in whatever letter case, is
\* ever requested, also when the name holds a wanted substring; a call on an
\* empty asset list requests nothing and returns no error.
C12_LegalNoticeNeverDownloaded ==
    sourceFile = "builds" =>
      /\ \A i \in 1..Len(requested) :
           ~HasSuffix(ToLower(requested[i]), LegalSuffix)
      /\ (instPc = "returned" /\ instAssets = <<>> /\ retErr.op # "mkdir") =>
           (retErr = NoErr /\ requested = <<>> /\ written = <<>>)

C12_Witness ==
    /\ sourceFile = "builds" /\ instPc = "returned" /\ retErr = NoErr
    /\ Len(instAssets) = 2
    /\ instAssets[1].Name = NamePatcherLegal
    /\ instAssets[2].Name = NamePatcher
    /\ requested = <<NamePatcher>>

\* C13: once the fetch goroutine has assigned LatestHash from a fetched
\* release, LatestHash is the part of the release name after its last space
\* (a suffix without a space, preceded by a space), and the whole name when
\* the name has no space; "V B ab" gives "ab".
C13_HashAfterLastSpace ==
    (FeedOk(fetchResp) /\ fetchPc \in {"send", "done"}) =>
      LET n == fetchResp.body.Name
          h == LatestHash
      IN /\ \A i \in 1..Len(h) : h[i] # " "
         /\ Len(h) <= Len(n)
         /\ SubSeq(n, Len(n) - Len(h) + 1, Len(n)) = h
         /\ IF \E i \in 1..Len(n) : n[i] = " "
            THEN Len(h) < Len(n) /\ n[Len(n) - Len(h)] = " "
            ELSE h = n
         /\ n = <<"V"," ","B"," ","a","b">> => h = <<"a","b">>

C13_Witness ==
    /\ FeedOk(fetchResp) /\ fetchPc = "done"
    /\ fetchResp.body.Name = <<"V"," ","B"," ","a","b">>
    /\ LatestHash = <<"a","b">>

\* a release build on the platform whose running executable cannot be
\* removed, with the cleanup goroutine scheduled fairly
InitCleanup ==
    /\ InitSelfUpdater
    /\ InstallerTag = "v1" /\ GOOS = "windows"

SpecCleanup ==
    /\ InitCleanup /\ [][NextSelfUpdater]_vars
    /\ WF_vars(DeleteOldExecutableStart)
    /\ WF_vars(DeleteOldExecutableAttempt)

\* C14: DeleteOldExecutable makes at most 10 counted attempts and, unless the
\* process exits first, finishes; it retries (counting one attempt) only while
\* the .old file exists and was not removed, leaves the loop otherwise, and no
\* step of it sets an error or terminates the process.
C14_CleanupTerminates ==
    /\ [](attempts <= MaxAttempts)
    /\ [][(cleanupPc = "loop" /\ cleanupPc' = "loop" /\ attempts' # attempts) =>
            /\ attempts < MaxAttempts /\ attempts' = attempts + 1
            /\ oldFile # NoFile /\ oldFile' = oldFile]_vars
    /\ [][(cleanupPc = "loop" /\ cleanupPc' = "done") =>
            (attempts = MaxAttempts \/ oldFile' = NoFile)]_vars
    /\ [][(cleanupPc' # cleanupPc \/ attempts' # attempts) =>
            UNCHANGED <<exited, relaunchErr, updErr, updPc>>]_vars
    /\ (cleanupPc = "loop") ~> (cleanupPc = "done" \/ exited)

C14_Witness ==
    cleanupPc = "done" /\ attempts = MaxAttempts /\ oldFile # NoFile /\ ~exited

\* C15: the process has exited only when the replacement process of a
\* RelaunchSelf call was started and released; a call whose start or release
\* failed has returned its error and left the process running; and the step
\* that exits is a step of RelaunchSelf alone: the check, the cleanup and
\* UpdateSelf are where they were and UpdateSelf is not under way.
C15_ExitOnlyAfterRelease ==
    /\ [](exited <=> child = "released")
    /\ [](child = "started" => relaunchErr = "failed to release new process")
    /\ [][(child' = "none" /\ (child # "none" \/ relaunchErr' # relaunchErr)) =>
            relaunchErr' = "failed to start new process"]_vars
    /\ [][exited' # exited =>
            /\ ~exited /\ exited' /\ child' = "released" /\ updIdle
            /\ UNCHANGED <<checkVars, cleanupVars, updVars, ghVars>>]_vars

C15_Witness ==
    exited /\ child = "released" /\ relaunchErr = "failed to release new process"

\* C16: while a call of UpdateSelf holds a response whose status is 404, the
\* file at ownExePath is not removed, renamed or overwritten, and the call
\* returns with an error.
C16_FailedDownloadKeepsExecutable ==
    /\ []((updRes = "404" /\ updPc = "returned") => updErr # NoError)
    /\ [][(updRes = "404" /\ updRes' = "404") => exeFile' = exeFile]_vars

\* C17: detection always has a step to take; InstalledHash is "None" until
\* it has run, and once it has run InstalledHash is "None" when nothing is at
\* the install path, when the file (or main.js of the directory) cannot be
\* read or when the file holds no marker, and is otherwise the run of word
\* characters that follows the leftmost marker of the file.
C17_DetectionByFirstMarker ==
    /\ (ghPc = "detect" /\ ~exited) => ENABLED DetectInstalledHash
    /\ ghPc \in {"start", "detect"} => InstalledHash = StrNone
    /\ (ghPc = "done" /\ ~IsDevInstall) =>
         LET b == localFile.content IN
         IF ~localFile.exists \/ ~localFile.readable \/ MarkerAt(b) = {}
         THEN InstalledHash = StrNone
         ELSE \E i \in MarkerAt(b) :
                /\ \A n \in MarkerAt(b) : i <= n
                /\ InstalledHash = WordRun(b, i + Len(MarkerPrefix))

C17_Witness ==
    /\ ghPc = "done" /\ ~IsDevInstall
    /\ localFile.isDir /\ localFile.readable
    /\ Cardinality(MarkerAt(localFile.content)) = 2
    /\ InstalledHash = <<"c">>

\* C18: apart from the detection at start, InstalledHash changes only on the
\* step on which installLatestBuilds returns without error outside dev-install
\* mode, having requested and written every selected asset, and it becomes
\* LatestHash; a call that returns an error leaves InstalledHash as it was, and
\* so does a dev-install call, which succeeds with nothing requested.
C18_HashAdvancesOnlyOnFullInstall ==
    /\ [][InstalledHash' # InstalledHash =>
            \/ ghPc = "detect" /\ ghPc' = "done"
            \/ /\ instPc # "returned" /\ instPc' = "returned"
               /\ retErr' = NoErr /\ ~IsDevInstall
               /\ InstalledHash' = LatestHash
               /\ written' = requested'
               /\ sourceFile = "builds" =>
                    requested' = SelectedNames(instAssets)]_vars
    /\ [][(instPc # "returned" /\ instPc' = "returned" /\ retErr' # NoErr) =>
            InstalledHash' = InstalledHash]_vars
    /\ [][(instPc # "returned" /\ instPc' = "returned" /\ IsDevInstall) =>
            /\ InstalledHash' = InstalledHash
            /\ retErr' = NoErr /\ requested' = <<>> /\ written' = <<>>]_vars

C18_Witness ==
    /\ instPc = "returned" /\ retErr = NoErr /\ ~IsDevInstall
    /\ localFile = NoArtifact
    /\ LatestHash = <<"a","b">> /\ InstalledHash = LatestHash
    /\ Len(requested) = 2 /\ written = requested

\* C19: a file that disappears from the .old path is the one a previous run
\* left there, never the executable that UpdateSelf renamed to that path.
C19_CleanupSparesRenamedExecutable ==
    [][(oldFile # NoFile /\ oldFile' = NoFile) => oldFile = "stale"]_vars

\* C20: whenever no call of UpdateSelf is under way, no file is at the name
\* of a staged temporary file.
C20_TempFileNeverOutlivesCall ==
    updIdle => (tmpFile = NoFile /\ ~staleTmp)

====
